---------------------------- MODULE Spec2Model ----------------------------
(***************************************************************************)
(* fmri-physio-log: PhysioLog (v0.3.3, src/src/fmri_physio_log/__init__.py)  *)
(* as a state machine.  One behaviour is one call of PhysioLog.from_string  *)
(* on one input text: __init__ resolves n_params, parse() runs the parser,  *)
(* the visitor walks the tree callback by callback, _body and _footer fill  *)
(* the record.                                                              *)
(*                                                                          *)
(* Text is a sequence of one-character strings.  The body (everything up to *)
(* and including the 5003 tag) is kept as characters; the footer is kept as *)
(* its lines, each already split into its keyword units and integer units.  *)
(* Python's None is the empty sequence and a present value v is <<v>>.      *)
(***************************************************************************)
EXTENDS Integers, Sequences, FiniteSets, TLC

\* ------------------------------------------------------------------ bounds
\* longest run of items after the four leading integers of a body
MaxTail == 3
\* largest explicit n_params override that is tried
MaxOverride == 5
\* longest footer of measurement / nr lines that is tried
MaxFooter == 4
\* longest footer of log, nr and unknown lines that is tried
MaxLogFooter == 3
\* largest hour of the log times that are tried
MaxClockHour == 23
\* longest footer given to the line-scanning parser
MaxScanFooter == 3
\* most items after the four leading integers of a body given to the
\* line-scanning parser
MaxScanItems == 4
\* threads that construct PhysioLog objects at the same time
NThreads == 2
\* constructor and from_* calls made in all
MaxCalls == 3

\* ------------------------------------------------------- program constants
N_PARAMS_DEFAULT == 4

\* --------------------------------------------------------------- characters
Digits == <<"0", "1", "2", "3", "4", "5", "6", "7", "8", "9">>

IsDigit(c) == \E i \in 1..Len(Digits) : Digits[i] = c

\* Python's \s and str.split() whitespace, within the characters used here
IsSpace(c) == c \in {" ", "\n", "\t"}

DigitVal(c) == (CHOOSE i \in 1..Len(Digits) : Digits[i] = c) - 1

\* int(token) of a token of decimal digits
RECURSIVE PyInt(_)
PyInt(cs) ==
    IF cs = << >> THEN 0
    ELSE 10 * PyInt(SubSeq(cs, 1, Len(cs) - 1)) + DigitVal(cs[Len(cs)])

\* str(n) of a non-negative integer
RECURSIVE PyStr(_)
PyStr(n) ==
    IF n < 10 THEN <<Digits[n + 1]>>
    ELSE PyStr(n \div 10) \o <<Digits[(n % 10) + 1]>>

\* int(a / b) for an integer a and a positive integer b: the quotient cut
\* towards zero. The float quotient of the code is within a few units of
\* 2^-53 (relative) of the exact one, which is an integer or at least 1/b
\* away from one, so for the magnitudes of a day of milliseconds the cut
\* float and the cut exact quotient are the same integer.
PyTruncDiv(a, b) == IF a >= 0 THEN a \div b ELSE -((-a) \div b)

Min2(a, b) == IF a < b THEN a ELSE b
Max2(a, b) == IF a > b THEN a ELSE b

\* Python's s[:n] and s[n:] for any integer n
PySliceTo(s, n) ==
    IF n >= 0 THEN SubSeq(s, 1, Min2(n, Len(s)))
    ELSE SubSeq(s, 1, Max2(Len(s) + n, 0))

PySliceFrom(s, n) ==
    IF n >= 0 THEN SubSeq(s, Min2(n, Len(s)) + 1, Len(s))
    ELSE SubSeq(s, Max2(Len(s) + n, 0) + 1, Len(s))

\* str.split(): the maximal runs of non-whitespace characters, in order
PySplit(s) ==
    LET starts  == {i \in 1..Len(s) :
                       ~IsSpace(s[i]) /\ (i = 1 \/ IsSpace(s[i - 1]))}
        nth(k)  == CHOOSE a \in starts : Cardinality({b \in starts : b < a}) = k - 1
        stop(a) == CHOOSE e \in a..Len(s) :
                       /\ \A j \in a..e : ~IsSpace(s[j])
                       /\ e = Len(s) \/ IsSpace(s[e + 1])
    IN  [k \in 1..Cardinality(starts) |-> SubSeq(s, nth(k), stop(nth(k)))]

\* " ".join(units)
RECURSIVE JoinSpace(_)
JoinSpace(units) ==
    IF units = << >> THEN << >>
    ELSE IF Len(units) = 1 THEN units[1]
    ELSE units[1] \o <<" ">> \o JoinSpace(Tail(units))

\* all sequences over S of length 0..n
SeqsUpTo(S, n) == UNION {[1..k -> S] : k \in 0..n}


\* ------------------------------------------------------------------ inputs
\* The units (whitespace-delimited words) of the text, as character sequences.
U1 == <<"1">>
U2 == <<"2">>
U3 == <<"3">>
U4 == <<"4">>
U7 == <<"7">>
U8 == <<"8">>
Ux == <<"x">>
Uy == <<"y">>
U5000 == <<"5", "0", "0", "0">>
U5002 == <<"5", "0", "0", "2">>
U5003 == <<"5", "0", "0", "3">>
U6002 == <<"6", "0", "0", "2">>
U6003 == <<"6", "0", "0", "3">>
U50021 == <<"5", "0", "0", "2", "1">>

\* The items a body is made of after its four leading integers: a sample 7,
\* a sample 50021, the separator 5000, an annotation block "x", and an
\* annotation block "y 8" (an integer inside the block).
BodyItems == {"int7", "big", "sep", "infoX", "infoY"}

ItemUnits(it) ==
    CASE it = "int7"  -> <<U7>>
      [] it = "big"   -> <<U50021>>
      [] it = "sep"   -> <<U5000>>
      [] it = "infoX" -> <<U5002, Ux, U6002>>
      [] it = "infoY" -> <<U5002, Uy, U8, U6002>>

LeadUnits == <<U1, U2, U3, U4>>

RECURSIVE TailUnits(_)
TailUnits(items) ==
    IF items = << >> THEN << >> ELSE ItemUnits(Head(items)) \o TailUnits(Tail(items))

\* the text of a body: the leading integers, the items, the 5003 tag
BodyText(items) == JoinSpace(LeadUnits \o TailUnits(items) \o <<U5003>>)

\* Footer lines: kw are the units before the colon, ints the units after it.
Modality == {"ECG", "PULS", "RESP", "EXT", "EXT2"}

RateLine(m, a, b) == [kw |-> <<m, "Freq", "Per">>, ints |-> <<a, b>>]
StatLine(m, a, b, c, d) ==
    [kw |-> <<m, "Min", "Max", "Avg", "StdDiff">>, ints |-> <<a, b, c, d>>]
NrLine(a, b, c, d) ==
    [kw |-> <<"NrTrig", "NrMP", "NrArr", "AcqWin">>, ints |-> <<a, b, c, d>>]
LogLine(edge, typ, t) == [kw |-> <<"Log", edge, typ, "Time">>, ints |-> <<t>>]

RateVals(m) == IF m = "ECG" THEN <<U1, U2>> ELSE <<U7, U8>>
StatVals(m) == IF m = "ECG" THEN <<U3, U4, U50021, U7>> ELSE <<U4, U3, U2, U1>>

RateOf(m) == RateLine(m, RateVals(m)[1], RateVals(m)[2])
StatOf(m) == StatLine(m, StatVals(m)[1], StatVals(m)[2], StatVals(m)[3], StatVals(m)[4])
Nr1 == NrLine(U1, U2, U3, U4)
Nr2 == NrLine(U7, U8, U7, U8)
BadLine == [kw |-> <<"Foo">>, ints |-> <<U1>>]

\* milliseconds past midnight of the log lines: 1000 and 3600001
T1000 == <<"1", "0", "0", "0">>
T3600001 == <<"3", "6", "0", "0", "0", "0", "1">>

SummaryLines == {RateOf("ECG"), StatOf("ECG"), RateOf("EXT2"), StatOf("EXT2"), Nr1}
LogLines ==
    {LogLine("Start", "MDH", T1000), LogLine("Stop", "MDH", T3600001),
     LogLine("Start", "MPCU", T1000), LogLine("Stop", "MPCU", T3600001),
     Nr1, Nr2, BadLine}

\* log times: the corners of hour, minute, second and millisecond, and the
\* examples of logptime's docstring
ClockTimes ==
    {h * 3600000 + m * 60000 + s * 1000 + ms :
        h \in {0, 1, MaxClockHour}, m \in {0, 59}, s \in {0, 59}, ms \in {0, 1, 999}}
ClockStops == {1000, 123456, 86399999}

RefTail == <<"int7">>
RefFooter == <<Nr1>>

None == << >>
Some(v) == <<v>>

\* the n_params arguments tried: absent, a count, and one negative integer
\* (the argument is not validated, and a slice takes a negative bound)
NParamArgs == {None} \cup {Some(n) : n \in (-1)..MaxOverride}

\* ------------------------------------------- parameter-count heuristic
\* re.compile(r"^\s*((?:\d+\s+){4,5})5002").match(content), by position.
RECURSIVE SkipSpace(_, _)
SkipSpace(s, i) == IF i <= Len(s) /\ IsSpace(s[i]) THEN SkipSpace(s, i + 1) ELSE i

RECURSIVE SkipDigits(_, _)
SkipDigits(s, i) == IF i <= Len(s) /\ IsDigit(s[i]) THEN SkipDigits(s, i + 1) ELSE i

\* k repetitions of \d+\s+ from position i: the position after them, 0 when
\* they do not match.  \d+ and \s+ are greedy and what follows each can only
\* start with a character of the other class, so no shorter match exists.
RECURSIVE Reps(_, _, _)
Reps(s, i, k) ==
    IF k = 0 THEN i
    ELSE LET d == SkipDigits(s, i)
             w == SkipSpace(s, d)
         IN  IF d = i \/ w = d THEN 0 ELSE Reps(s, w, k - 1)

\* the literal lit at position i of s
LitAt(s, i, lit) ==
    /\ i >= 1
    /\ i + Len(lit) - 1 <= Len(s)
    /\ SubSeq(s, i, i + Len(lit) - 1) = lit

\* m.group(1) of the match, None when the pattern does not match; the
\* quantifier {4,5} is greedy: five repetitions are tried before four.
RegexGroup1(s) ==
    LET b  == SkipSpace(s, 1)
        e5 == Reps(s, b, 5)
        e4 == Reps(s, b, 4)
    IN  IF e5 # 0 /\ LitAt(s, e5, U5002) THEN Some(SubSeq(s, b, e5 - 1))
        ELSE IF e4 # 0 /\ LitAt(s, e4, U5002) THEN Some(SubSeq(s, b, e4 - 1))
        ELSE None

determine_params_heuristically(text) ==
    LET m == RegexGroup1(text)
    IN  IF m # None THEN Len(PySplit(m[1])) ELSE N_PARAMS_DEFAULT

\* variant of resolve_n_params: the argument tested for truth, not for None
ResolveFalsy(text, arg) ==
    IF arg = None \/ arg = Some(0)
    THEN [n |-> determine_params_heuristically(text), scanned |-> TRUE]
    ELSE [n |-> arg[1], scanned |-> FALSE]

\* n_params of __init__: [n |-> the resolved count, scanned |-> whether the
\* heuristic ran]
resolve_n_params(text, arg) ==
    IF arg = None
    THEN [n |-> determine_params_heuristically(text), scanned |-> TRUE]
    ELSE [n |-> arg[1], scanned |-> FALSE]

\* ------------------------------------------------------ lexer and grammar
\* Trees and tokens as the visitor sees them: a tree has data (its rule) and
\* children, a token has type and value.
Token(t, v) == [type |-> t, value |-> v]
Tree(rule, ch) == [data |-> Token("RULE", rule), children |-> ch]
IsTree(x) == "children" \in DOMAIN x

Sentinels == {U5000, U5002, U5003, U6002, U6003}

\* one unit of text to one token: a fixed marker is a sentinel, another
\* unsigned decimal is an integer, anything else a word
Classify(u) ==
    IF u \in Sentinels THEN Token("SENTINEL", u)
    ELSE IF \A i \in 1..Len(u) : IsDigit(u[i]) THEN Token("INT", u)
    ELSE Token("WORD", u)

Lexer(text) == LET us == PySplit(text) IN [i \in 1..Len(us) |-> Classify(us[i])]

IsSentinel(tok, u) == tok.type = "SENTINEL" /\ tok.value = u

\* index of the first 6002 at or after i, 0 when there is none
RECURSIVE FindClose(_, _)
FindClose(toks, i) ==
    IF i > Len(toks) THEN 0
    ELSE IF IsSentinel(toks[i], U6002) THEN i
    ELSE FindClose(toks, i + 1)

\* body-data from position i: integers and annotation blocks in original
\* order, 5000 dropped; ok is FALSE on a token the grammar does not allow
RECURSIVE ParseData(_, _, _)
ParseData(toks, i, acc) ==
    IF i > Len(toks) THEN [ok |-> TRUE, children |-> acc]
    ELSE IF toks[i].type = "INT" THEN ParseData(toks, i + 1, Append(acc, toks[i]))
    ELSE IF IsSentinel(toks[i], U5000) THEN ParseData(toks, i + 1, acc)
    ELSE IF IsSentinel(toks[i], U5002)
         THEN LET j == FindClose(toks, i + 1)
              IN  IF j = 0 THEN [ok |-> FALSE, children |-> acc]
                  ELSE ParseData(toks, j + 1,
                         Append(acc, Tree("info",
                           <<Token("TEXT",
                               JoinSpace([k \in 1..(j - i - 1) |-> toks[i + k].value]))>>)))
    ELSE [ok |-> FALSE, children |-> acc]

\* body: at least four leading integers, then body-data, then the 5003 tag
ParseBody(text) ==
    LET toks == Lexer(text)
        n    == Len(toks)
    IN  IF n < 5 \/ ~IsSentinel(toks[n], U5003)
           \/ \E i \in 1..4 : toks[i].type # "INT"
        THEN [ok |-> FALSE, children |-> << >>]
        ELSE ParseData(SubSeq(toks, 1, n - 1), 1, << >>)

IntTokens(us) == [i \in 1..Len(us) |-> Token("INT", us[i])]

\* one footer line: the four alternatives in priority order
ParseLine(line) ==
    LET kw == line.kw
        ni == Len(line.ints)
        allInts == \A i \in 1..ni : Classify(line.ints[i]).type = "INT"
    IN  IF allInts /\ Len(kw) = 3 /\ kw[1] \in Modality
           /\ SubSeq(kw, 2, 3) = <<"Freq", "Per">> /\ ni = 2
        THEN Some(Tree("rate_line",
               <<Tree("modality", <<Token("MODALITY", kw[1])>>)>> \o IntTokens(line.ints)))
        ELSE IF allInts /\ Len(kw) = 5 /\ kw[1] \in Modality
           /\ SubSeq(kw, 2, 5) = <<"Min", "Max", "Avg", "StdDiff">> /\ ni = 4
        THEN Some(Tree("stat_line",
               <<Tree("modality", <<Token("MODALITY", kw[1])>>)>> \o IntTokens(line.ints)))
        ELSE IF allInts /\ kw = <<"NrTrig", "NrMP", "NrArr", "AcqWin">> /\ ni = 4
        THEN Some(Tree("nr_line", IntTokens(line.ints)))
        ELSE IF allInts /\ Len(kw) = 4 /\ kw[1] = "Log" /\ kw[2] \in {"Start", "Stop"}
           /\ kw[3] \in {"MDH", "MPCU"} /\ kw[4] = "Time" /\ ni = 1
        THEN Some(Tree("log_line", <<Token("LOG_TYPE", kw)>> \o IntTokens(line.ints)))
        ELSE None

\* the parser: the tree of the whole text, None on a parse error
Parser(text) ==
    LET b  == ParseBody(text.body)
        ls == [i \in 1..Len(text.footer) |-> ParseLine(text.footer[i])]
    IN  IF ~b.ok \/ \E i \in 1..Len(ls) : ls[i] = None THEN None
        ELSE Some(Tree("start",
               <<Tree("body", <<Tree("data", b.children)>>),
                 Tree("footer", [i \in 1..Len(ls) |-> ls[i][1]])>>))

\* Visitor_Recursive.visit: the subtrees bottom-up, children before parent,
\* in text order
RECURSIVE PostOrder(_)
PostOrder(t) ==
    LET RECURSIVE Kids(_)
        Kids(cs) ==
            IF cs = << >> THEN << >>
            ELSE (IF IsTree(Head(cs)) THEN PostOrder(Head(cs)) ELSE << >>)
                 \o Kids(Tail(cs))
    IN  Kids(t.children) \o <<t>>

\* the rules _PhysioLogVisitor has a callback for; any other rule goes to the
\* visitor's default, which does nothing
Callbacks == {"data", "info", "rate_line", "stat_line", "nr_line", "log_line"}
HasCallback(t) == t.data.value \in Callbacks

\* _iter_ints: every INT token of the tree, depth first, as an integer
RECURSIVE iter_ints(_)
iter_ints(t) ==
    IF t.data.type = "INT" THEN <<PyInt(t.data.value)>>
    ELSE LET RECURSIVE Over(_)
             Over(cs) ==
                 IF cs = << >> THEN << >>
                 ELSE (IF IsTree(Head(cs)) THEN iter_ints(Head(cs))
                       ELSE IF Head(cs).type = "INT" THEN <<PyInt(Head(cs).value)>>
                       ELSE << >>)
                      \o Over(Tail(cs))
         IN  Over(t.children)

\* ------------------------------------------------------------ the record
MeasurementSummary(v) ==
    [freq |-> v[1], per |-> v[2], min |-> v[3], max |-> v[4], avg |-> v[5],
     std_diff |-> v[6]]

NrSummary(v) == [nr_trig |-> v[1], nr_m_p |-> v[2], nr_arr |-> v[3], acq_win |-> v[4]]

\* variant of logptime: the milliseconds passed on as microseconds
LogptimeMillisAsMicros(timestamp) ==
    LET hour == PyTruncDiv(timestamp, 1000 * 60 * 60)
        min  == PyTruncDiv(timestamp, 1000 * 60) - hour * 60
        sec  == PyTruncDiv(timestamp, 1000) - (hour * 60 * 60 + min * 60)
        msec == timestamp - (hour * 1000 * 60 * 60 + min * 1000 * 60 + sec * 1000)
    IN  [hour |-> hour, minute |-> min, second |-> sec, microsecond |-> msec]

\* LogTime.logptime: int(t / 1000 / 60 / 60) and the cumulative subtractions
logptime(timestamp) ==
    LET hour == PyTruncDiv(timestamp, 1000 * 60 * 60)
        min  == PyTruncDiv(timestamp, 1000 * 60) - hour * 60
        sec  == PyTruncDiv(timestamp, 1000) - (hour * 60 * 60 + min * 60)
        msec == timestamp - (hour * 1000 * 60 * 60 + min * 1000 * 60 + sec * 1000)
    IN  [hour |-> hour, minute |-> min, second |-> sec, microsecond |-> msec * 1000]

\* datetime.time(...) raises ValueError outside these ranges
ValidTime(t) ==
    /\ t.hour \in 0..23
    /\ t.minute \in 0..59
    /\ t.second \in 0..59
    /\ t.microsecond \in 0..999999

LogTime(v) ==
    [start |-> v[1], stop |-> v[2],
     start_time |-> logptime(v[1]), stop_time |-> logptime(v[2])]

\* str.lower() of the keys the visitor uses
Lower(k) ==
    CASE k = "ECG"  -> "ecg"
      [] k = "PULS" -> "puls"
      [] k = "RESP" -> "resp"
      [] k = "EXT"  -> "ext"
      [] k = "EXT2" -> "ext2"
      [] k = "MDH"  -> "mdh"
      [] k = "MPCU" -> "mpcu"

\* an object with no attribute set
NoAttrs == [a \in {} |-> None]

\* setattr of every attribute of new on obj
SetAttrs(obj, new) ==
    [a \in DOMAIN obj \cup DOMAIN new |-> IF a \in DOMAIN new THEN new[a] ELSE obj[a]]

\* d[k].extend(vals) on a defaultdict(list)
DictExtend(d, k, vals) ==
    [x \in DOMAIN d \cup {k} |->
        IF x = k THEN (IF k \in DOMAIN d THEN d[k] ELSE << >>) \o vals ELSE d[x]]

\* variant of InitAttrs: ext2 defaults to a zero-filled summary
InitAttrsZero(n) ==
    ("n_params" :> Some(n)) @@ ("ext2" :> Some(MeasurementSummary(<<0, 0, 0, 0, 0, 0>>)))

\* the attributes __init__ sets before parse(): n_params, and ext2 = None;
\* the other public attributes are only annotated, not assigned
InitAttrs(n) == ("n_params" :> Some(n)) @@ ("ext2" :> None)

\* _PhysioLogVisitor.__init__
NewVisitor ==
    [data |-> << >>, info |-> << >>, summaries |-> NoAttrs, nr |-> << >>,
     logs |-> NoAttrs]

\* ------------------------------------------------------------------- state
VARIABLES
    in_tail,    \* the items the body text was written from
    content,    \* the text: [body: characters, footer: lines]
    n_arg,      \* the n_params argument: None or Some(n)
    pc,         \* "start", "parse", "visit", "done", "failed"
    error,      \* the exception that ended the call, "" when none
    scanned,    \* whether determine_params_heuristically ran
    tree,       \* the parse tree, None before parser.parse returned
    todo,       \* the subtrees visit() has still to call back for
    visitor,    \* the fields of self._visitor
    log,        \* the attributes of the PhysioLog object
    built,      \* the attributes as construction left them, once parse() is
                \* called again; None before
    scan,       \* the line-scanning PhysioLog (v0.1.2) and its parse()
    EMIT_INIT_WARNING,  \* the module's global _EMIT_INIT_WARNING
    th,         \* per thread: where it is in a constructor or from_* call
    hist        \* the calls that ended: kind, raised, warning emitted

vars == <<in_tail, content, n_arg, pc, error, scanned, tree, todo, visitor, log,
          built, scan, EMIT_INIT_WARNING, th, hist>>

\* the warning flag and the calls that read and write it
warnvars == <<EMIT_INIT_WARNING, th, hist>>

\* what a call of from_string leaves alone
othervars == <<built, scan, EMIT_INIT_WARNING, th, hist>>

\* what the line-scanning parser leaves alone
callvars == <<in_tail, content, n_arg, pc, error, scanned, tree, todo, visitor, log,
              built, EMIT_INIT_WARNING, th, hist>>

\* what the calls of the warning model leave alone
parsevars == <<in_tail, content, n_arg, pc, error, scanned, tree, todo, visitor, log,
               built, scan>>

Threads == 1..NThreads

\* a thread that is in no call
ThreadIdle == [pc |-> "idle", kind |-> "none", warned |-> FALSE, raised |-> FALSE]

\* the line-scanning PhysioLog before its constructor is called
ScanIdle ==
    [pc |-> "start", lines |-> << >>, data_line |-> << >>,
     measurements |-> NoAttrs, nr |-> NoAttrs, timestamps |-> NoAttrs,
     obj |-> NoAttrs, error |-> ""]

InitCommon ==
    /\ pc = "start"
    /\ error = ""
    /\ scanned = FALSE
    /\ tree = None
    /\ todo = << >>
    /\ visitor = NewVisitor
    /\ log = NoAttrs
    /\ built = None
    /\ scan = ScanIdle
    /\ EMIT_INIT_WARNING = TRUE
    /\ th = [t \in Threads |-> ThreadIdle]
    /\ hist = << >>

\* any body, any n_params, the reference footer
InitBody ==
    /\ in_tail \in SeqsUpTo(BodyItems, MaxTail)
    /\ n_arg \in NParamArgs
    /\ content = [body |-> BodyText(in_tail), footer |-> RefFooter]
    /\ InitCommon

\* the reference body, any footer of measurement and nr lines
InitSummary ==
    /\ in_tail = RefTail
    /\ n_arg = None
    /\ \E f \in SeqsUpTo(SummaryLines, MaxFooter) :
          content = [body |-> BodyText(in_tail), footer |-> f]
    /\ InitCommon

\* the reference body, any footer of log, nr and unknown lines
InitLog ==
    /\ in_tail = RefTail
    /\ n_arg = None
    /\ \E f \in SeqsUpTo(LogLines, MaxLogFooter) :
          content = [body |-> BodyText(in_tail), footer |-> f]
    /\ InitCommon

\* the reference body, a footer with the nr-line and the two MDH log lines
\* with times from the corners of the clock
InitClock ==
    /\ in_tail = RefTail
    /\ n_arg = None
    /\ \E a \in ClockTimes, b \in ClockStops :
          content = [body |-> BodyText(in_tail),
                     footer |-> <<Nr1, LogLine("Start", "MDH", PyStr(a)),
                                  LogLine("Stop", "MDH", PyStr(b))>>]
    /\ InitCommon

Init == InitBody \/ InitSummary \/ InitLog \/ InitClock

\* ----------------------------------------------------------------- actions
Raise(exc) ==
    /\ pc' = "failed"
    /\ error' = exc

\* PhysioLog.__init__ up to the call of parse(): the constructor arguments,
\* the visitor, ext2 = None
PhysioLog_init ==
    /\ pc = "start"
    /\ LET r == resolve_n_params(content.body, n_arg)
       IN  /\ scanned' = r.scanned
           /\ log' = InitAttrs(r.n)
    /\ visitor' = NewVisitor
    /\ pc' = "parse"
    /\ UNCHANGED <<in_tail, content, n_arg, error, tree, todo>>
    /\ UNCHANGED othervars

\* parse(): self._parser.parse(self.content), then the visitor is started
PhysioLog_parse ==
    /\ pc = "parse"
    /\ LET t == Parser(content)
       IN  IF t = None
           THEN /\ Raise("ParseError")
                /\ UNCHANGED <<tree, todo>>
           ELSE /\ tree' = t
                /\ todo' = SelectSeq(PostOrder(t[1]), HasCallback)
                /\ pc' = "visit"
                /\ error' = error
    /\ UNCHANGED <<in_tail, content, n_arg, scanned, visitor, log>>
    /\ UNCHANGED othervars

Visiting(rule) ==
    /\ pc = "visit"
    /\ todo # << >>
    /\ Head(todo).data.value = rule

\* variant of visitor_info: a text already seen is not appended again
InfoDedup(v, t) ==
    LET i == t.children[1]
    IN  IF ~IsTree(i) /\ ~\E k \in 1..Len(v.info) : v.info[k] = i.value
        THEN [v EXCEPT !.info = Append(@, i.value)]
        ELSE v

\* _PhysioLogVisitor.info: the block's text is appended
visitor_info(v, t) ==
    LET i == t.children[1]
    IN  IF ~IsTree(i) THEN [v EXCEPT !.info = Append(@, i.value)] ELSE v

\* variant of visitor_data: values of 5000 and more are filtered out, as the
\* line-scanning versions did
DataBelow5000(v, t) ==
    [v EXCEPT !.data = SelectSeq(iter_ints(t), LAMBDA x : x < 5000)]

\* _PhysioLogVisitor.data: every integer of the data tree
visitor_data(v, t) == [v EXCEPT !.data = iter_ints(t)]

\* next(tree.find_pred(lambda t: t.data == "modality")).children[0]
find_modality(t) ==
    LET i == CHOOSE k \in 1..Len(t.children) :
                 /\ IsTree(t.children[k])
                 /\ t.children[k].data.value = "modality"
                 /\ \A j \in 1..(k - 1) :
                       ~(IsTree(t.children[j]) /\ t.children[j].data.value = "modality")
    IN  t.children[i].children[1]

\* _PhysioLogVisitor.rate_line and stat_line: the line's integers are
\* appended to the modality's list
visitor_rate_line(v, t) ==
    LET modality == find_modality(t)
    IN  IF ~IsTree(modality)
        THEN [v EXCEPT !.summaries = DictExtend(@, modality.value, iter_ints(t))]
        ELSE v

visitor_stat_line(v, t) ==
    LET modality == find_modality(t)
    IN  IF ~IsTree(modality)
        THEN [v EXCEPT !.summaries = DictExtend(@, modality.value, iter_ints(t))]
        ELSE v

\* variant of visitor_nr_line: the first nr-line is kept
NrFirstWins(v, t) == IF v.nr = << >> THEN [v EXCEPT !.nr = iter_ints(t)] ELSE v

\* _PhysioLogVisitor.nr_line: the last line replaces what was there
visitor_nr_line(v, t) == [v EXCEPT !.nr = iter_ints(t)]

\* "MDH" in log_type, on the name as its parts
InName(part, name) == \E k \in 1..Len(name) : name[k] = part

\* the key log_line files the line under: None when it raises SyntaxError
log_key(t) ==
    LET log_type == t.children[1]
    IN  IF IsTree(log_type) THEN None
        ELSE IF InName("MDH", log_type.value) THEN Some("MDH")
        ELSE IF InName("MPCU", log_type.value) THEN Some("MPCU")
        ELSE None

visitor_log_line(v, t) ==
    [v EXCEPT !.logs = DictExtend(@, log_key(t)[1], iter_ints(t))]

Step(v) ==
    /\ visitor' = v
    /\ todo' = Tail(todo)
    /\ UNCHANGED <<in_tail, content, n_arg, pc, error, scanned, tree, log>>
    /\ UNCHANGED othervars

info == Visiting("info") /\ Step(visitor_info(visitor, Head(todo)))

data == Visiting("data") /\ Step(visitor_data(visitor, Head(todo)))

rate_line == Visiting("rate_line") /\ Step(visitor_rate_line(visitor, Head(todo)))

stat_line == Visiting("stat_line") /\ Step(visitor_stat_line(visitor, Head(todo)))

nr_line == Visiting("nr_line") /\ Step(visitor_nr_line(visitor, Head(todo)))

log_line ==
    /\ Visiting("log_line")
    /\ IF log_key(Head(todo)) = None
       THEN /\ Raise("SyntaxError")
            /\ UNCHANGED <<in_tail, content, n_arg, scanned, tree, todo, visitor, log>>
            /\ UNCHANGED othervars
       ELSE Step(visitor_log_line(visitor, Head(todo)))

\* self._visitor._data[: self.n_params]
body_params(d, n) == PySliceTo(d, n)

\* variant of body_rate_index: with fewer than four params rate is read from
\* the last of them
RateIndexLastParam(n) == IF n = 4 THEN 2 ELSE Min2(3, Max2(n - 1, 0))

\* variant of body_rate_index: rate always read from params[2]
RateIndexAlways2(n) == 2

\* the index of params that rate is read from
body_rate_index(n) == IF n = 4 THEN 2 ELSE 3

\* variant of body_ts: the slice starts one element late
TsSkipsOne(d, n) == PySliceFrom(d, n + 1)

\* self._visitor._data[self.n_params :]
body_ts(d, n) == PySliceFrom(d, n)

\* _body: the body attributes; rate raises IndexError on a short params
PhysioLog_body ==
    /\ pc = "visit"
    /\ todo = << >>
    /\ LET n      == log["n_params"][1]
           params == body_params(visitor.data, n)
           idx    == body_rate_index(n)
       IN  IF idx + 1 > Len(params)
           THEN /\ Raise("IndexError")
                /\ log' = SetAttrs(log, "params" :> Some(params))
           ELSE /\ pc' = "footer"
                /\ error' = error
                /\ log' = SetAttrs(log,
                            ("params" :> Some(params))
                            @@ ("rate" :> Some(params[idx + 1]))
                            @@ ("info" :> Some(visitor.info))
                            @@ ("ts" :> Some(body_ts(visitor.data, n)))
                            @@ ("data" :> Some(visitor.data)))
    /\ UNCHANGED <<in_tail, content, n_arg, scanned, tree, todo, visitor>>
    /\ UNCHANGED othervars

\* the attributes _footer sets from the visitor's dictionaries
footer_summaries(v) ==
    [a \in {Lower(k) : k \in DOMAIN v.summaries} |->
        LET k == CHOOSE k \in DOMAIN v.summaries : Lower(k) = a
        IN  Some(MeasurementSummary(v.summaries[k]))]

footer_logs(v) ==
    [a \in {Lower(k) : k \in DOMAIN v.logs} |->
        LET k == CHOOSE k \in DOMAIN v.logs : Lower(k) = a
        IN  Some(LogTime(v.logs[k]))]

\* variant of footer_nr: NrSummary with zero defaults for missing fields
FooterNrDefault(v) ==
    IF Len(v.nr) # 4 THEN Some(NrSummary(<<0, 0, 0, 0>>)) ELSE Some(NrSummary(v.nr))

\* NrSummary(*self._visitor._nr): None when the call raises TypeError, as a
\* NamedTuple of four fields does on any other number of arguments
footer_nr(v) == IF Len(v.nr) # 4 THEN None ELSE Some(NrSummary(v.nr))

\* _footer: NrSummary, MeasurementSummary and LogTime raise TypeError on a
\* wrong number of values; datetime.time raises ValueError
PhysioLog_footer ==
    /\ pc = "footer"
    /\ IF \/ footer_nr(visitor) = None
          \/ \E k \in DOMAIN visitor.summaries : Len(visitor.summaries[k]) # 6
          \/ \E k \in DOMAIN visitor.logs : Len(visitor.logs[k]) # 2
       THEN /\ Raise("TypeError")
            /\ log' = log
       ELSE IF \E k \in DOMAIN visitor.logs :
                  \E i \in 1..2 : ~ValidTime(logptime(visitor.logs[k][i]))
       THEN /\ Raise("ValueError")
            /\ log' = log
       ELSE /\ pc' = "done"
            /\ error' = error
            /\ log' = SetAttrs(log,
                        ("nr" :> footer_nr(visitor))
                        @@ footer_summaries(visitor)
                        @@ footer_logs(visitor))
    /\ UNCHANGED <<in_tail, content, n_arg, scanned, tree, todo, visitor>>
    /\ UNCHANGED othervars

Next ==
    \/ PhysioLog_init
    \/ PhysioLog_parse
    \/ info
    \/ data
    \/ rate_line
    \/ stat_line
    \/ nr_line
    \/ log_line
    \/ PhysioLog_body
    \/ PhysioLog_footer

Spec == Init /\ [][Next]_vars

\* ------------------------------------------------- parse() called again
\* parse() is a public method: a caller may call it on the constructed
\* object. It runs the same parser, visitor, _body and _footer once more, on
\* the same self._visitor.
PhysioLog_reparse ==
    /\ pc = "done"
    /\ built = None
    /\ built' = Some(log)
    /\ pc' = "parse"
    /\ UNCHANGED <<in_tail, content, n_arg, error, scanned, tree, todo, visitor, log>>
    /\ UNCHANGED <<scan, EMIT_INIT_WARNING, th, hist>>

NextReparse ==
    \/ PhysioLog_init
    \/ PhysioLog_parse
    \/ info
    \/ data
    \/ rate_line
    \/ stat_line
    \/ nr_line
    \/ log_line
    \/ PhysioLog_body
    \/ PhysioLog_footer
    \/ PhysioLog_reparse

SpecReparse == Init /\ [][NextReparse]_vars

\* ------------------------------------ the line-scanning parser (v0.1.2)
\* PhysioLog(filename) of src/fmri_physio_log.py reads the file, takes data
\* lines off the front of its lines until parse_data_line says the data
\* section is over, and then scans the remaining lines by their prefix.
MEASUREMENT_PREFIXES == {"ECG", "PULS", "RESP", "EXT"}
NR_PREFIXES == {"Nr"}
TIME_PREFIXES == {"Log"}

ULogVersion == <<"L", "O", "G", "V", "E", "R", "S", "I", "O", "N", "_", "1">>
LogVersionPrefix == <<"L", "O", "G", "V", "E", "R", "S", "I", "O", "N", "_">>

\* the items a body for the line-scanning parser is made of after its four
\* leading integers: a sample 7, the block "5002 LOGVERSION_1 6002", a line
\* break, the end marker 5003
ScanItems == {"int7", "logver", "nl", "end"}

RECURSIVE ScanText(_)
ScanText(items) ==
    IF items = << >> THEN << >>
    ELSE (CASE Head(items) = "int7"   -> <<" ">> \o U7
            [] Head(items) = "logver" -> <<" ">> \o JoinSpace(<<U5002, ULogVersion, U6002>>)
            [] Head(items) = "nl"     -> <<"\n">>
            [] Head(items) = "end"    -> <<" ">> \o U5003)
         \o ScanText(Tail(items))

ScanBody(items) == JoinSpace(LeadUnits) \o ScanText(items)

\* the last line of a file
EndLine == [kw |-> << >>, ints |-> <<U6003>>]

\* the footer lines given to the line-scanning parser
ScanLines ==
    {RateOf("ECG"), StatOf("ECG"), Nr1, LogLine("Start", "MDH", T1000),
     LogLine("Stop", "MDH", T3600001), BadLine}

\* str.splitlines(): the runs between line breaks, no empty last line
PySplitLines(s) ==
    LET breaks  == {i \in 1..Len(s) : s[i] = "\n"}
        starts  == {a \in {1} \cup {i + 1 : i \in breaks} : a <= Len(s)}
        nth(k)  == CHOOSE a \in starts : Cardinality({b \in starts : b < a}) = k - 1
        stop(a) == IF \E i \in breaks : i >= a
                   THEN (CHOOSE i \in breaks :
                            i >= a /\ \A j \in breaks : j >= a => i <= j) - 1
                   ELSE Len(s)
    IN  [k \in 1..Cardinality(starts) |-> SubSeq(s, nth(k), stop(nth(k)))]

\* content.splitlines() of the file: the lines of the body, the footer lines
\* and the end line
FileLines(text) ==
    LET b == PySplitLines(text.body)
    IN  [i \in 1..Len(b) |-> [kw |-> << >>, ints |-> PySplit(b[i])]]
        \o text.footer \o <<EndLine>>

\* line.split(): the words of a line; LogStartMDHTime is one word
LineSplit(line) ==
    IF line.kw # << >> /\ line.kw[1] = "Log"
    THEN <<line.kw>> \o line.ints
    ELSE [i \in 1..Len(line.kw) |-> <<line.kw[i]>>] \o line.ints

\* line.startswith(prefix), on the first word of the line, for the words
\* the inputs have
StartsWith(line, p) ==
    /\ line.kw # << >>
    /\ \/ line.kw[1] = p
       \/ <<line.kw[1], p>> \in {<<"EXT2", "EXT">>, <<"NrTrig", "Nr">>}

is_measurement_line(line) == \E p \in MEASUREMENT_PREFIXES : StartsWith(line, p)
is_nr_line(line) == \E p \in NR_PREFIXES : StartsWith(line, p)
is_time_line(line) == \E p \in TIME_PREFIXES : StartsWith(line, p)

\* word.startswith("LOGVERSION_")
IsLogVersion(w) ==
    /\ Len(w) >= Len(LogVersionPrefix)
    /\ SubSeq(w, 1, Len(LogVersionPrefix)) = LogVersionPrefix

\* the while loop of parse_data_line: the first 5002 up to the first 6002
\* after it is deleted, until one of the two is not found
RECURSIVE StripBlocks(_)
StripBlocks(l) ==
    IF ~\E i \in 1..Len(l) : l[i] = U5002 THEN l
    ELSE LET s == CHOOSE i \in 1..Len(l) :
                      l[i] = U5002 /\ \A j \in 1..(i - 1) : l[j] # U5002
         IN  IF ~\E i \in (s + 1)..Len(l) : l[i] = U6002 THEN l
             ELSE LET e == CHOOSE i \in (s + 1)..Len(l) :
                               l[i] = U6002 /\ \A j \in (s + 1)..(i - 1) : l[j] # U6002
                  IN  StripBlocks(SubSeq(l, 1, s - 1) \o SubSeq(l, e + 1, Len(l)))

WordIsInt(w) == w # << >> /\ \A i \in 1..Len(w) : IsDigit(w[i])

\* the end of parse_data_line: values, params, rate, ts of the words l
data_values(l) ==
    IF \E i \in 1..Len(l) : ~WordIsInt(l[i]) THEN [raised |-> "ValueError"]
    ELSE LET values == [i \in 1..Len(l) |-> PyInt(l[i])]
         IN  IF Len(values) < 3 THEN [raised |-> "IndexError"]
             ELSE [raised |-> "",
                   params |-> PySliceTo(values, 4),
                   rate |-> values[3],
                   ts |-> SelectSeq(PySliceFrom(values, 4), LAMBDA x : x < 5000)]

\* parse_data_line(line) with self.data_line = dl: whether it raised, whether
\* it asks for another line, the new self.data_line, the values it set
parse_data_line(dl, line) ==
    LET l == LineSplit(line)
    IN  IF dl = << >> /\ Len(l) < 6
        THEN [raised |-> "IndexError", again |-> FALSE, data_line |-> dl]
        ELSE IF dl # << >> \/ IsLogVersion(l[6])
        THEN IF l = << >>
             THEN [raised |-> "IndexError", again |-> FALSE, data_line |-> dl \o l]
             ELSE IF l[Len(l)] # U5003
             THEN [raised |-> "", again |-> TRUE, data_line |-> dl \o l]
             ELSE LET vals == data_values(StripBlocks(dl \o l))
                  IN  [raised |-> vals.raised, again |-> FALSE, data_line |-> << >>,
                       values |-> vals]
        ELSE LET vals == data_values(l)
             IN  [raised |-> vals.raised, again |-> FALSE, data_line |-> dl,
                  values |-> vals]

to_snake_case(w) ==
    CASE w = "Freq"    -> "freq"
      [] w = "Per"     -> "per"
      [] w = "Min"     -> "min"
      [] w = "Max"     -> "max"
      [] w = "Avg"     -> "avg"
      [] w = "StdDiff" -> "std_diff"
      [] w = "NrTrig"  -> "nr_trig"
      [] w = "NrMP"    -> "nr_m_p"
      [] w = "NrArr"   -> "nr_arr"
      [] w = "AcqWin"  -> "acq_win"

\* group_params: dict(zip(names in snake case, values as integers)); a later
\* pair of the same name replaces an earlier one
group_params(names, values) ==
    LET n == Min2(Len(names), Len(values))
    IN  [k \in {to_snake_case(names[i]) : i \in 1..n} |->
            LET i == CHOOSE i \in 1..n :
                         /\ to_snake_case(names[i]) = k
                         /\ \A j \in (i + 1)..n : to_snake_case(names[j]) # k
            IN  PyInt(values[i])]

parse_measurement_line(line) ==
    [name |-> Lower(line.kw[1]), params |-> group_params(Tail(line.kw), line.ints)]

parse_nr_line(line) == [name |-> "nr", params |-> group_params(line.kw, line.ints)]

\* parse_time_line, for a line Log<S...><NAME>Time: <int>
parse_time_line(line) ==
    [name |-> Lower(line.kw[3]),
     params |-> ((IF line.kw[2] = "Start" THEN "start" ELSE "stop")
                 :> PyInt(line.ints[1]))]

\* d[name].update(params) on a defaultdict(dict)
DictUpdate(d, name, params) ==
    [x \in DOMAIN d \cup {name} |->
        IF x = name THEN SetAttrs(IF name \in DOMAIN d THEN d[name] ELSE NoAttrs, params)
        ELSE d[x]]

ScanRaise(exc) == scan' = [scan EXCEPT !.pc = "failed", !.error = exc]

\* PhysioLog.__init__ and the first two lines of parse(): the file's lines
scan_init ==
    /\ scan.pc = "start"
    /\ scan' = [scan EXCEPT !.pc = "data", !.lines = FileLines(content)]
    /\ UNCHANGED callvars

\* one turn of: while self.parse_data_line(lines.pop(0)): pass
scan_parse_data_line ==
    /\ scan.pc = "data"
    /\ IF scan.lines = << >>
       THEN ScanRaise("IndexError")
       ELSE LET r == parse_data_line(scan.data_line, Head(scan.lines))
            IN  IF r.raised # ""
                THEN scan' = [scan EXCEPT !.pc = "failed", !.error = r.raised,
                                          !.lines = Tail(@),
                                          !.data_line = r.data_line]
                ELSE IF r.again
                THEN scan' = [scan EXCEPT !.lines = Tail(@), !.data_line = r.data_line]
                ELSE scan' = [scan EXCEPT
                                !.pc = "footer",
                                !.lines = Tail(@),
                                !.data_line = r.data_line,
                                !.obj = SetAttrs(@,
                                          ("params" :> Some(r.values.params))
                                          @@ ("rate" :> Some(r.values.rate))
                                          @@ ("ts" :> Some(r.values.ts)))]
    /\ UNCHANGED callvars

ScanLine == scan.pc = "footer" /\ scan.lines # << >>

\* one turn of the for loop over the remaining lines, by the line's prefix
scan_measurement_line ==
    /\ ScanLine
    /\ is_measurement_line(Head(scan.lines))
    /\ LET r == parse_measurement_line(Head(scan.lines))
       IN  scan' = [scan EXCEPT !.lines = Tail(@),
                                !.measurements = DictUpdate(@, r.name, r.params)]
    /\ UNCHANGED callvars

scan_nr_line ==
    /\ ScanLine
    /\ ~is_measurement_line(Head(scan.lines))
    /\ is_nr_line(Head(scan.lines))
    /\ LET r == parse_nr_line(Head(scan.lines))
       IN  scan' = [scan EXCEPT !.lines = Tail(@),
                                !.nr = DictUpdate(@, r.name, r.params)]
    /\ UNCHANGED callvars

scan_time_line ==
    /\ ScanLine
    /\ ~is_measurement_line(Head(scan.lines))
    /\ ~is_nr_line(Head(scan.lines))
    /\ is_time_line(Head(scan.lines))
    /\ LET r == parse_time_line(Head(scan.lines))
       IN  scan' = [scan EXCEPT !.lines = Tail(@),
                                !.timestamps = DictUpdate(@, r.name, r.params)]
    /\ UNCHANGED callvars

\* else: pass
scan_other_line ==
    /\ ScanLine
    /\ ~is_measurement_line(Head(scan.lines))
    /\ ~is_nr_line(Head(scan.lines))
    /\ ~is_time_line(Head(scan.lines))
    /\ scan' = [scan EXCEPT !.lines = Tail(@)]
    /\ UNCHANGED callvars

MeasurementFields == {"freq", "per", "min", "max", "avg", "std_diff"}
NrFields == {"nr_trig", "nr_m_p", "nr_arr", "acq_win"}
LogFields == {"start", "stop"}

\* LogTime(**kwargs) of v0.1.2
ScanLogTime(kw) ==
    [start |-> kw["start"], stop |-> kw["stop"],
     start_time |-> logptime(kw["start"]), stop_time |-> logptime(kw["stop"])]

\* the three setattr loops at the end of parse(): the dataclasses raise
\* TypeError unless the keywords are exactly their fields
scan_setattrs ==
    /\ scan.pc = "footer"
    /\ scan.lines = << >>
    /\ IF \/ \E k \in DOMAIN scan.measurements :
                DOMAIN scan.measurements[k] # MeasurementFields
          \/ \E k \in DOMAIN scan.nr : DOMAIN scan.nr[k] # NrFields
          \/ \E k \in DOMAIN scan.timestamps : DOMAIN scan.timestamps[k] # LogFields
       THEN ScanRaise("TypeError")
       ELSE IF \E k \in DOMAIN scan.timestamps :
                  \E f \in LogFields : ~ValidTime(logptime(scan.timestamps[k][f]))
       THEN ScanRaise("ValueError")
       ELSE scan' = [scan EXCEPT
                       !.pc = "done",
                       !.obj = SetAttrs(@,
                                 [k \in DOMAIN scan.measurements |->
                                     Some(scan.measurements[k])]
                                 @@ [k \in DOMAIN scan.nr |-> Some(scan.nr[k])]
                                 @@ [k \in DOMAIN scan.timestamps |->
                                        Some(ScanLogTime(scan.timestamps[k]))])]
    /\ UNCHANGED callvars

\* the reference body, any footer
InitScanFooter ==
    /\ in_tail = RefTail
    /\ \E f \in SeqsUpTo(ScanLines, MaxScanFooter) :
          content = [body |-> BodyText(in_tail), footer |-> f]

\* any body, the reference footer
InitScanBody ==
    /\ in_tail \in SeqsUpTo(ScanItems, MaxScanItems)
    /\ content = [body |-> ScanBody(in_tail), footer |-> RefFooter]

InitLineScan ==
    /\ InitScanFooter \/ InitScanBody
    /\ n_arg = None
    /\ InitCommon

NextLineScan ==
    \/ scan_init
    \/ scan_parse_data_line
    \/ scan_measurement_line
    \/ scan_nr_line
    \/ scan_time_line
    \/ scan_other_line
    \/ scan_setattrs

SpecLineScan == InitLineScan /\ [][NextLineScan]_vars

\* ------------------------------------------- the deprecation warning
\* __init__ warns when the module's global _EMIT_INIT_WARNING is True; the
\* from_* classmethods call the constructor inside _disable_init_warning(),
\* which sets the global to False and, in its finally, to True. The threads
\* of a process share the global. What the constructor does after the
\* warning (the parse) is taken here by its outcome alone: it returns or it
\* raises.
Kinds == {"from_string", "from_file", "from_filename", "direct"}

\* calls begun so far
Begun == Len(hist) + Cardinality({t \in Threads : th[t].pc # "idle"})

CallRecord(t) == [kind |-> th[t].kind, raised |-> th[t].raised, warned |-> th[t].warned]

\* a thread calls PhysioLog(content) or one of the from_* classmethods
thread_call(t, k) ==
    /\ th[t].pc = "idle"
    /\ Begun < MaxCalls
    /\ th' = [th EXCEPT ![t] = [pc |-> IF k = "direct" THEN "init" ELSE "with",
                                kind |-> k, warned |-> FALSE, raised |-> FALSE]]
    /\ UNCHANGED <<EMIT_INIT_WARNING, hist>>
    /\ UNCHANGED parsevars

\* _disable_init_warning up to its yield: _EMIT_INIT_WARNING = False
disable_init_warning(t) ==
    /\ th[t].pc = "with"
    /\ EMIT_INIT_WARNING' = FALSE
    /\ th' = [th EXCEPT ![t].pc = "init"]
    /\ UNCHANGED hist
    /\ UNCHANGED parsevars

\* __maybe_emit_init_warning: warnings.warn(...) if _EMIT_INIT_WARNING
maybe_emit_init_warning(t) ==
    /\ th[t].pc = "init"
    /\ th' = [th EXCEPT ![t].pc = "rest", ![t].warned = EMIT_INIT_WARNING]
    /\ UNCHANGED <<EMIT_INIT_WARNING, hist>>
    /\ UNCHANGED parsevars

\* the rest of __init__, parse() included: it returns or it raises; a direct
\* call has ended then, a from_* call has its finally clause to run
init_rest(t, raises) ==
    /\ th[t].pc = "rest"
    /\ IF th[t].kind = "direct"
       THEN /\ th' = [th EXCEPT ![t].pc = "idle", ![t].raised = raises]
            /\ hist' = Append(hist, [CallRecord(t) EXCEPT !.raised = raises])
       ELSE /\ th' = [th EXCEPT ![t].pc = "finally", ![t].raised = raises]
            /\ hist' = hist
    /\ UNCHANGED EMIT_INIT_WARNING
    /\ UNCHANGED parsevars

\* variant of restore_flag: the flag is set back only when the block returned
RestoreUnlessRaised(raised) == ~raised

\* the finally clause of _disable_init_warning: _EMIT_INIT_WARNING = True,
\* whether the block returned or raised
restore_flag(raised) == TRUE

\* _disable_init_warning after its yield, and the from_* call ends
enable_init_warning(t) ==
    /\ th[t].pc = "finally"
    /\ EMIT_INIT_WARNING' = restore_flag(th[t].raised)
    /\ th' = [th EXCEPT ![t].pc = "idle"]
    /\ hist' = Append(hist, CallRecord(t))
    /\ UNCHANGED parsevars

\* the reference text; no call made yet
InitThreads ==
    /\ in_tail = RefTail
    /\ n_arg = None
    /\ content = [body |-> BodyText(in_tail), footer |-> RefFooter]
    /\ InitCommon

NextThreads ==
    \/ \E t \in Threads, k \in Kinds : thread_call(t, k)
    \/ \E t \in Threads : disable_init_warning(t)
    \/ \E t \in Threads : maybe_emit_init_warning(t)
    \/ \E t \in Threads, raises \in BOOLEAN : init_rest(t, raises)
    \/ \E t \in Threads : enable_init_warning(t)

\* any number of threads, any interleaving of their steps
SpecThreads == InitThreads /\ [][NextThreads]_vars

NextSingle ==
    \/ \E k \in Kinds : thread_call(1, k)
    \/ disable_init_warning(1)
    \/ maybe_emit_init_warning(1)
    \/ \E raises \in BOOLEAN : init_rest(1, raises)
    \/ enable_init_warning(1)

\* one thread making its calls one after the other
SpecSingle == InitThreads /\ [][NextSingle]_vars

\* ------------------------------------------------ what the text contains
\* Read off the items the text was written from, not off the parse.
ItemInts(it) ==
    CASE it = "int7" -> <<7>>
      [] it = "big"  -> <<50021>>
      [] OTHER       -> << >>

ItemInfos(it) ==
    CASE it = "infoX" -> <<(<<"x">>)>>
      [] it = "infoY" -> <<(<<"y", " ", "8">>)>>
      [] OTHER        -> << >>

RECURSIVE TailInts(_)
TailInts(items) ==
    IF items = << >> THEN << >> ELSE ItemInts(Head(items)) \o TailInts(Tail(items))

\* the integers of the body outside annotation blocks, without 5000
TextInts == <<1, 2, 3, 4>> \o TailInts(in_tail)

RECURSIVE TailInfos(_)
TailInfos(items) ==
    IF items = << >> THEN << >> ELSE ItemInfos(Head(items)) \o TailInfos(Tail(items))

\* the annotation blocks of the body, in text order
TextInfos == TailInfos(in_tail)

\* the units of the body text, in order
TextUnits == LeadUnits \o TailUnits(in_tail) \o <<U5003>>

AllDigits(u) == \A i \in 1..Len(u) : IsDigit(u[i])

HasLine(l) == \E i \in 1..Len(content.footer) : content.footer[i] = l
HasRate(m) == HasLine(RateOf(m))
HasStat(m) == HasLine(StatOf(m))

Returned == pc = "done"
Ended == pc \in {"done", "failed"}
IsNrLine(l) == l.kw = <<"NrTrig", "NrMP", "NrArr", "AcqWin">>
HasNrLine == \E i \in 1..Len(content.footer) : IsNrLine(content.footer[i])
Attr(a) == log[a][1]
Exposed(m) == Lower(m) \in DOMAIN log /\ log[Lower(m)] # None
Ints(us) == [i \in 1..Len(us) |-> PyInt(us[i])]

\* ------------------------------------------------------------------ claims
\* C1: on every returned record data is params followed by ts, and that is
\* the integer run of the body: nothing is dropped, nothing reordered.
C1_DataIsParamsThenTs ==
    Returned =>
        /\ Attr("data") = Attr("params") \o Attr("ts")
        /\ Attr("params") \o Attr("ts") = TextInts

C1_Witness ==
    /\ Returned
    /\ Attr("params") = <<1, 2, 3, 4>>
    /\ Attr("ts") = <<7, 50021>>
    /\ Len(Attr("info")) = 1

\* C2: on every returned record len(data) = n_params + len(ts) and
\* len(params) = n_params, also when the override exceeds the number of
\* integers of the body.
C2_LengthsMatchNParams ==
    Returned =>
        /\ Len(Attr("data")) = Attr("n_params") + Len(Attr("ts"))
        /\ Len(Attr("params")) = Attr("n_params")

\* C3: an explicit n_params is the resolved count and the heuristic is not
\* run; without it the count is the heuristic's, which is 4 when the pattern
\* does not match.
C3_OverridePrecedence ==
    pc # "start" =>
        IF n_arg # None
        THEN Attr("n_params") = n_arg[1] /\ ~scanned
        ELSE /\ scanned
             /\ Attr("n_params") = determine_params_heuristically(content.body)
             /\ RegexGroup1(content.body) = None => Attr("n_params") = N_PARAMS_DEFAULT

C3_Witness ==
    /\ Returned
    /\ n_arg = Some(4)
    /\ determine_params_heuristically(content.body) = 5
    /\ Attr("n_params") = 4

\* C4: the heuristic gives 5 exactly when the text starts with five integer
\* tokens and the sixth token is 5002 itself, and 4 in every other case.
C4_HeuristicWholeToken ==
    (pc # "start" /\ n_arg = None) =>
        Attr("n_params") =
            IF /\ Len(TextUnits) >= 6
               /\ \A i \in 1..5 : AllDigits(TextUnits[i])
               /\ TextUnits[6] = U5002
            THEN 5 ELSE 4

\* C5: rate is params[2] when n_params is 4 and params[3] when it is 5: the
\* third or the fourth integer of the body.
C5_RateFromParams ==
    (Returned /\ Attr("n_params") \in {4, 5}) =>
        LET i == IF Attr("n_params") = 4 THEN 3 ELSE 4
        IN  /\ Attr("rate") = Attr("params")[i]
            /\ Attr("rate") = TextInts[i]

C5_Witness ==
    /\ Returned
    /\ n_arg = None
    /\ Attr("n_params") = 5
    /\ Attr("rate") = 4

\* C6: ts is the body's integers after the first n_params (a count, so not
\* negative), in order; 5000 and the contents of annotation blocks are left
\* out, larger values kept.
C6_TsIsTheSamples ==
    (Returned /\ Attr("n_params") >= 0) =>
        LET n == Attr("n_params")
        IN  /\ Attr("ts") = IF n >= Len(TextInts) THEN << >>
                            ELSE SubSeq(TextInts, n + 1, Len(TextInts))
            /\ Len(Attr("ts")) = Max2(Len(TextInts) - n, 0)

C6_Witness ==
    /\ Returned
    /\ in_tail = <<"infoY", "big", "sep">>
    /\ Attr("n_params") = 4
    /\ Attr("ts") = <<50021>>

\* C7: info is the annotation blocks of the body, one string each, in text
\* order, duplicates kept; no block gives the empty list.
C7_InfoInTextOrder == Returned => Attr("info") = TextInfos

C7_Witness ==
    /\ Returned
    /\ Len(Attr("info")) = 3
    /\ Attr("info")[1] = <<"y", " ", "8">>
    /\ Attr("info")[2] = <<"x">>
    /\ Attr("info")[3] = Attr("info")[1]

\* C8: an exposed summary of a modality with a rate line and a stat line has
\* freq, per from the rate line and min, max, avg, std_diff from the stat
\* line, in whatever order the footer has the two lines.
C8_FieldsFromTheirLines ==
    Returned =>
        \A m \in Modality :
            (Exposed(m) /\ HasRate(m) /\ HasStat(m)) =>
                LET s == Attr(Lower(m))
                IN  /\ <<s.freq, s.per>> = Ints(RateVals(m))
                    /\ <<s.min, s.max, s.avg, s.std_diff>> = Ints(StatVals(m))

\* C9: an exposed summary means the footer had a rate line and a stat line
\* of that modality.
C9_NeverPartial ==
    Returned => \A m \in Modality : Exposed(m) => (HasRate(m) /\ HasStat(m))

\* C10: a modality without lines in the footer has no summary on the record,
\* and ext2 is None then; ext2 is a summary only when EXT2 lines were there.
C10_AbsentModalityIsNull ==
    Returned =>
        /\ \A m \in Modality : (~HasRate(m) /\ ~HasStat(m)) => ~Exposed(m)
        /\ "ext2" \in DOMAIN log
        /\ (~HasRate("EXT2") /\ ~HasStat("EXT2")) => log["ext2"] = None

C10_Witness ==
    /\ Returned
    /\ Exposed("ECG")
    /\ log["ext2"] = None
    /\ ~HasRate("EXT2")


RequiredModality == {"ECG", "PULS", "RESP", "EXT"}
RequiredLog == {"MDH", "MPCU"}
HasLog(edge, k) ==
    \E i \in 1..Len(content.footer) :
        content.footer[i].kw = <<"Log", edge, k, "Time">>
LacksRequired ==
    \/ \E m \in RequiredModality : ~(HasRate(m) /\ HasStat(m))
    \/ \E k \in RequiredLog : ~(HasLog("Start", k) /\ HasLog("Stop", k))

C12_RequiredFieldsOrFailure ==
    /\ (Ended /\ LacksRequired) => pc = "failed"
    /\ Returned => \A k \in RequiredModality \cup RequiredLog : Exposed(k)


\* C13: for each log type whose LogTime is on the returned record, start is
\* the integer of that type's Log Start line and stop the integer of its Log
\* Stop line, and both lines were in the footer, in whatever order and
\* number the log lines come.
LogInt(edge, k) ==
    LET i == CHOOSE i \in 1..Len(content.footer) :
                 content.footer[i].kw = <<"Log", edge, k, "Time">>
    IN  PyInt(content.footer[i].ints[1])

C13_StartAndStopFromTheirLines ==
    Returned =>
        \A k \in RequiredLog :
            Exposed(k) =>
                /\ HasLog("Start", k)
                /\ HasLog("Stop", k)
                /\ Attr(Lower(k)).start = LogInt("Start", k)
                /\ Attr(Lower(k)).stop = LogInt("Stop", k)


\* C14: on a returned record NrSummary holds the four integers of the last
\* nr-line of the footer; the integers of earlier nr-lines are not in it.
LastNrLine ==
    LET i == CHOOSE i \in 1..Len(content.footer) :
                 /\ IsNrLine(content.footer[i])
                 /\ \A j \in (i + 1)..Len(content.footer) : ~IsNrLine(content.footer[j])
    IN  content.footer[i]

C14_LastNrLineWins ==
    Returned =>
        /\ HasNrLine
        /\ Attr("nr") = NrSummary(Ints(LastNrLine.ints))

C14_Witness ==
    /\ Returned
    /\ Len(content.footer) >= 2
    /\ content.footer[1] = Nr1
    /\ content.footer[2] = Nr2
    /\ Attr("nr") = [nr_trig |-> 7, nr_m_p |-> 8, nr_arr |-> 7, acq_win |-> 8]


\* C15: for a timestamp t of 0..86399999 logptime gives hour = t div
\* 3600000, minute = (t div 60000) mod 60, second = (t div 1000) mod 60 and
\* millisecond = t mod 1000, within 0..23, 0..59, 0..59 and 0..999, and the
\* four add up to t again; LogTime does so for start and for stop, each on
\* its own.
DayMillis == 0..86399999
ClockOf(t) ==
    [hour |-> t \div 3600000, minute |-> (t \div 60000) % 60,
     second |-> (t \div 1000) % 60, microsecond |-> (t % 1000) * 1000]
ClockIsOf(c, t) ==
    /\ c = ClockOf(t)
    /\ c.hour \in 0..23 /\ c.minute \in 0..59 /\ c.second \in 0..59
    /\ c.microsecond \in {ms * 1000 : ms \in 0..999}
    /\ c.hour * 3600000 + c.minute * 60000 + c.second * 1000
          + c.microsecond \div 1000 = t

C15_LogptimeIsDivMod ==
    Returned =>
        \A k \in RequiredLog :
            Exposed(k) =>
                LET l == Attr(Lower(k))
                IN  /\ l.start \in DayMillis => ClockIsOf(l.start_time, l.start)
                    /\ l.stop \in DayMillis => ClockIsOf(l.stop_time, l.stop)

C15_Witness ==
    /\ Returned
    /\ Exposed("MDH")
    /\ Attr("mdh").start = 86399999
    /\ Attr("mdh").start_time =
          [hour |-> 23, minute |-> 59, second |-> 59, microsecond |-> 999000]
    /\ Attr("mdh").stop = 123456
    /\ Attr("mdh").stop_time =
          [hour |-> 0, minute |-> 2, second |-> 3, microsecond |-> 456000]


\* C20: with an explicit n_params of 0, 1, 2 or 3 construction fails on every
\* input and no record is returned; the override is not checked before the
\* parse: the text is parsed and visited first, and the failure is the
\* IndexError of reading rate from params[3] in _body.
SmallOverride == n_arg # None /\ n_arg[1] \in 0..3

C20_SmallOverrideFails ==
    SmallOverride =>
        /\ ~Returned
        /\ pc # "footer"
        /\ pc \notin {"start", "failed"} => Attr("n_params") = n_arg[1]
        /\ pc = "failed" =>
              /\ error = "IndexError"
              /\ tree # None
              /\ todo = << >>
              /\ Len(Attr("params")) = n_arg[1]

C20_Witness ==
    /\ pc = "failed"
    /\ error = "IndexError"
    /\ n_arg = Some(3)
    /\ Len(visitor.data) >= 6
    /\ Attr("params") = <<1, 2, 3>>


\* C18: when parse() is called again on a constructed PhysioLog and has
\* ended, params, rate, ts, data, info, the summaries, nr, mdh and mpcu are
\* what they were after construction.
RecordFields ==
    {"params", "rate", "ts", "data", "info", "ecg", "puls", "resp", "ext", "ext2",
     "nr", "mdh", "mpcu"}

C18_ReparseLeavesRecord ==
    (built # None /\ Ended) =>
        \A a \in RecordFields \cap DOMAIN built[1] :
            a \in DOMAIN log /\ log[a] = built[1][a]


\* C16: a text whose footer has a line that is none of rate, stat, nr and log
\* line is not turned into a record: the parse fails, the line is not
\* skipped.
C16_UnknownFooterLineFails ==
    HasLine(BadLine) => (~Returned /\ scan.pc # "done")


\* C17: whatever the interleaving of the threads, each direct constructor
\* call emits the FutureWarning and no from_* call emits it.
C17_WarningByKindOfCall ==
    \A i \in 1..Len(hist) : hist[i].warned <=> (hist[i].kind = "direct")

\* C19: in one thread, once every from_* call made so far has returned or
\* raised, _EMIT_INIT_WARNING is True again, and a direct constructor call
\* made then emits the FutureWarning.
C19_FlagRestoredAfterCalls ==
    /\ th[1].pc = "idle" => EMIT_INIT_WARNING = TRUE
    /\ \A i \in 1..Len(hist) : hist[i].kind = "direct" => hist[i].warned

C19_Witness ==
    /\ Len(hist) = 3
    /\ hist[1].kind = "from_string" /\ hist[1].raised
    /\ hist[2].kind = "from_filename" /\ ~hist[2].raised
    /\ hist[3].kind = "direct" /\ hist[3].warned
    /\ EMIT_INIT_WARNING = TRUE


\* ------------------------------------------- the data-section loop (v0.1.2)
\* the lines of the file and their words
ScanFile == FileLines(content)
ScanWords(i) == LineSplit(ScanFile[i])

\* extended mode: the 6th token of the first line starts with LOGVERSION_
ExtendedFile == Len(ScanWords(1)) >= 6 /\ IsLogVersion(ScanWords(1)[6])

\* the last token of the words l is 5003
EndsWith5003(l) == l # << >> /\ l[Len(l)] = U5003

NoLineEndsWith5003 == \A i \in 1..Len(ScanFile) : ~EndsWith5003(ScanWords(i))

\* position i of l lies in a 5002...6002 span: from a 5002 up to the first
\* 6002 after it
InSpan(l, i) ==
    \E s \in 1..i :
        /\ l[s] = U5002
        /\ \A j \in (s + 1)..(i - 1) : l[j] # U6002
        /\ \E e \in (s + 1)..Len(l) : e >= i /\ l[e] = U6002

\* the words of l outside every span, in order
OutsideSpans(l) ==
    LET idx    == {i \in 1..Len(l) : ~InSpan(l, i)}
        nth(k) == CHOOSE i \in idx : Cardinality({j \in idx : j < i}) = k - 1
    IN  [k \in 1..Cardinality(idx) |-> l[nth(k)]]

\* one turn of the loop in extended mode, as the claim has it: a line whose
\* last token is not 5003 is added to data_line and the loop goes on (True);
\* the first line whose last token is 5003 ends the loop (False) with
\* data_line empty and params, rate and ts converted from the words outside
\* the 5002...6002 spans
ExtendedTurn ==
    (scan.pc = "data" /\ scan.lines # << >> /\ ExtendedFile) =>
        LET l   == LineSplit(Head(scan.lines))
            all == scan.data_line \o l
        IN  IF ~EndsWith5003(l)
            THEN /\ scan'.pc = "data"
                 /\ scan'.data_line = all
                 /\ scan'.lines = Tail(scan.lines)
            ELSE /\ scan'.pc = "footer"
                 /\ scan'.data_line = << >>
                 /\ scan'.lines = Tail(scan.lines)
                 /\ LET kept == OutsideSpans(all)
                        vals == Ints(kept)
                    IN  /\ \A i \in 1..Len(kept) : WordIsInt(kept[i])
                        /\ Len(vals) >= 4
                        /\ scan'.obj["params"] = Some(SubSeq(vals, 1, 4))
                        /\ scan'.obj["rate"] = Some(vals[3])
                        /\ scan'.obj["ts"] =
                              Some(SelectSeq(SubSeq(vals, 5, Len(vals)),
                                             LAMBDA x : x < 5000))

\* every turn of the loop takes one line off the lines, or leaves the loop
TurnTakesALine ==
    scan.pc = "data" => (scan'.pc # "data" \/ Len(scan'.lines) < Len(scan.lines))

\* no line ends with 5003: no body is accepted, and the failure is the one
\* of lines.pop(0) on the lines that ran out
NoEndFailsWhenLinesRunOut ==
    (ExtendedFile /\ NoLineEndsWith5003) =>
        /\ scan.pc \notin {"footer", "done"}
        /\ scan.pc = "failed" => (scan.error = "IndexError" /\ scan.lines = << >>)

\* C21: the data-section loop always ends, each turn taking one of the
\* finitely many lines: in extended mode every line whose last token is not
\* 5003 makes parse_data_line return True, the first line whose last token
\* is 5003 makes it return False with data_line empty and the 5002...6002
\* spans removed before the conversion; if no line ends with 5003 the loop
\* fails when the lines run out, and no body is accepted.
C21_DataLoopEnds ==
    /\ [][ExtendedTurn /\ TurnTakesALine]_vars
    /\ []NoEndFailsWhenLinesRunOut

=============================================================================
